---- MODULE Spec2Model ----
(***************************************************************************)
(* Consolama (bot.py): a console chat session that keeps a transcript of   *)
(* messages, compresses it when the token estimate crosses a threshold,    *)
(* and after every answer opens the transcript in an external editor and   *)
(* parses the edited text back.                                            *)
(*                                                                         *)
(* Text is modelled as a sequence of one-character strings, so that        *)
(* format_messages_for_display and parse_messages_from_text are computed   *)
(* character by character as Python computes them.                         *)
(***************************************************************************)
EXTENDS Integers, Sequences, FiniteSets, TLC

(***************************************************************************)
(* Bounds of the exploration.                                              *)
(***************************************************************************)
MaxMsgs == 2
MaxChars == 4
MaxKeep == 2
MaxList == 6
MaxTurns == 3
MaxTextLen == 5
SmallMaxTokens == 60
SmallKeep == 1

(***************************************************************************)
(* Python str primitives used by bot.py.                                   *)
(***************************************************************************)
LowerLetters ==
    <<"a","b","c","d","e","f","g","h","i","j","k","l","m",
      "n","o","p","q","r","s","t","u","v","w","x","y","z">>

UpperLetters ==
    <<"A","B","C","D","E","F","G","H","I","J","K","L","M",
      "N","O","P","Q","R","S","T","U","V","W","X","Y","Z">>

Digits == <<"0","1","2","3","4","5","6","7","8","9">>

Whitespace == {" ", "\n", "\t", "\r"}

MinOf(S) == CHOOSE x \in S : \A y \in S : x <= y

MaxOf(S) == CHOOSE x \in S : \A y \in S : y <= x

upper_char(c) ==
    IF \E i \in 1..26 : LowerLetters[i] = c
    THEN UpperLetters[CHOOSE i \in 1..26 : LowerLetters[i] = c]
    ELSE c

lower_char(c) ==
    IF \E i \in 1..26 : UpperLetters[i] = c
    THEN LowerLetters[CHOOSE i \in 1..26 : UpperLetters[i] = c]
    ELSE c

upper(s) == [i \in 1..Len(s) |-> upper_char(s[i])]

lower(s) == [i \in 1..Len(s) |-> lower_char(s[i])]

\* str.strip(): drop leading and trailing whitespace
strip(s) ==
    LET idx == {i \in 1..Len(s) : s[i] \notin Whitespace}
    IN  IF idx = {} THEN <<>> ELSE SubSeq(s, MinOf(idx), MaxOf(idx))

\* index of the first occurrence of sub in s, 0 when there is none
find(s, sub) ==
    LET hits == {i \in 1..(Len(s) - Len(sub) + 1) :
                    SubSeq(s, i, i + Len(sub) - 1) = sub}
    IN  IF hits = {} THEN 0 ELSE MinOf(hits)

contains(s, sub) == find(s, sub) # 0

startswith(s, p) == Len(s) >= Len(p) /\ SubSeq(s, 1, Len(p)) = p

\* str.split(sep): every non-overlapping occurrence, left to right
RECURSIVE split(_, _)
split(s, sep) ==
    LET i == find(s, sep)
    IN  IF i = 0 THEN <<s>>
        ELSE <<SubSeq(s, 1, i - 1)>> \o split(SubSeq(s, i + Len(sep), Len(s)), sep)

\* str.split(sep, 1): at most one split
split1(s, sep) ==
    LET i == find(s, sep)
    IN  IF i = 0 THEN <<s>>
        ELSE <<SubSeq(s, 1, i - 1), SubSeq(s, i + Len(sep), Len(s))>>

\* sep.join(parts)
RECURSIVE join(_, _)
join(sep, parts) ==
    IF parts = <<>> THEN <<>>
    ELSE IF Len(parts) = 1 THEN parts[1]
    ELSE parts[1] \o sep \o join(sep, Tail(parts))

\* str(i) for a non-negative integer
RECURSIVE str_int(_)
str_int(i) ==
    IF i < 10 THEN <<Digits[i + 1]>>
    ELSE str_int(i \div 10) \o <<Digits[(i % 10) + 1]>>

NL == <<"\n">>

BlankLine == <<"\n", "\n">>

(***************************************************************************)
(* Literals of bot.py.                                                     *)
(***************************************************************************)
role_system == <<"s","y","s","t","e","m">>

role_user == <<"u","s","e","r">>

role_assistant == <<"a","s","s","i","s","t","a","n","t">>

Msg(r, c) == [role |-> r, content |-> c]

instruction_content ==
    <<"Y","o","u"," ","a","r","e"," ","a"," ","s","u","p","p","o","r",
      "t"," ","a","s","s","i","s","t","a","n","t"," ","f","o","r"," ",
      "s","o","f","t","w","a","r","e"," ","d","e","v","e","l","o","p",
      "m","e","n","t","."," ","O","u","t","p","u","t"," ","f","o","r",
      " ","A","l","a","c","r","i","t","t","y"," ","t","e","r","m","i",
      "n","a","l",";"," ","f","o","r","m","a","t"," ","f","o","r"," ",
      "s","p","a","c","e"," ","e","f","f","i","c","i","e","n","c","y",
      ".">>

instruction_message == Msg(role_system, instruction_content)

summary_marker ==
    <<"[","P","r","e","v","i","o","u","s"," ","c","o","n","v","e","r",
      "s","a","t","i","o","n"," ","s","u","m","m","a","r","y","]",":",
      " ">>

header_line_1 ==
    <<"#"," ","C","o","n","v","e","r","s","a","t","i","o","n"," ","H",
      "i","s","t","o","r","y"," ","E","d","i","t","o","r">>

header_line_2 ==
    <<"#"," ","E","d","i","t"," ","t","h","e"," ","c","o","n","v","e",
      "r","s","a","t","i","o","n"," ","b","e","l","o","w","."," ","F",
      "o","r","m","a","t",":"," ","[","i","n","d","e","x","]"," ","R",
      "O","L","E",":"," ","c","o","n","t","e","n","t">>

header_line_3 ==
    <<"#"," ","S","a","v","e"," ","a","n","d"," ","c","l","o","s","e",
      " ","t","h","e"," ","e","d","i","t","o","r"," ","t","o"," ","u",
      "p","d","a","t","e",","," ","o","r"," ","e","x","i","t"," ","w",
      "i","t","h","o","u","t"," ","s","a","v","i","n","g"," ","t","o",
      " ","c","a","n","c","e","l",".">>

header_line_4 ==
    <<"#"," ","L","i","n","e","s"," ","s","t","a","r","t","i","n","g",
      " ","w","i","t","h"," ","#"," ","a","r","e"," ","c","o","m","m",
      "e","n","t","s"," ","a","n","d"," ","w","i","l","l"," ","b","e",
      " ","i","g","n","o","r","e","d",".">>

\* the triple-quoted header: four comment lines, then an empty line
header ==
    header_line_1 \o NL \o header_line_2 \o NL \o header_line_3 \o NL
      \o header_line_4 \o NL \o NL

MAX_CONTEXT_TOKENS == 8000

RECENT_TURNS_TO_KEEP == 6

\* COMPRESSION_THRESHOLD = 0.85, kept as a fraction
COMPRESSION_THRESHOLD_NUM == 85

COMPRESSION_THRESHOLD_DEN == 100

MESSAGE_OVERHEAD == 10

CHARS_PER_TOKEN == 4

(***************************************************************************)
(* Token estimator.                                                        *)
(***************************************************************************)
estimate_tokens(text) ==
    IF text = <<>> THEN 0 ELSE Len(text) \div CHARS_PER_TOKEN

RECURSIVE count_context_tokens(_)
count_context_tokens(messages) ==
    IF messages = <<>> THEN 0
    ELSE estimate_tokens(Head(messages).role)
           + estimate_tokens(Head(messages).content)
           + MESSAGE_OVERHEAD
           + count_context_tokens(Tail(messages))

(***************************************************************************)
(* Compressor.  The summarization call is the only step that involves the  *)
(* outside world; its outcome is a parameter: either a summary text or an  *)
(* error caught by "except Exception".                                     *)
(***************************************************************************)
ChatOk(text) == [ok |-> TRUE, content |-> text]

ChatError == [ok |-> FALSE, content |-> <<>>]

\* messages[0] if messages[0].get('role') == 'system' else None
has_system_msg(messages) == Head(messages).role = role_system

\* variant: the slice starts one message too early
recent_messages_one_more(messages, k) ==
    IF k > 0 THEN SubSeq(messages, Len(messages) - 2 * k, Len(messages))
    ELSE <<>>

\* messages[-(k*2):] if k > 0 else []
recent_messages(messages, k) ==
    IF k > 0 THEN SubSeq(messages, Len(messages) - 2 * k + 1, Len(messages))
    ELSE <<>>

\* everything between the system message and the recent messages
messages_to_compress(messages, k) ==
    IF has_system_msg(messages)
    THEN IF k > 0 THEN SubSeq(messages, 2, Len(messages) - 2 * k)
         ELSE Tail(messages)
    ELSE IF k > 0 THEN SubSeq(messages, 1, Len(messages) - 2 * k)
         ELSE messages

\* the two early returns taken before the model is called
compress_returns_early(messages, k) ==
    IF Len(messages) <= k * 2 + 1 THEN TRUE
    ELSE messages_to_compress(messages, k) = <<>>

\* "\n".join(f"{ROLE}: {content}" ...), the text sent for summarization
conversation_text(to_compress) ==
    join(NL, [i \in 1..Len(to_compress) |->
                upper(to_compress[i].role) \o <<":", " ">> \o to_compress[i].content])

summary_msg(summary_content) ==
    Msg(role_assistant, summary_marker \o summary_content)

\* variant: the system message is not put back
compressed_messages_without_system(messages, k, summary_content) ==
    <<summary_msg(summary_content)>> \o recent_messages(messages, k)

compressed_messages(messages, k, summary_content) ==
    (IF has_system_msg(messages) THEN <<Head(messages)>> ELSE <<>>)
      \o <<summary_msg(summary_content)>>
      \o recent_messages(messages, k)

\* variant: the except branch returns only the recent messages
compress_messages_drops_on_error(messages, k, outcome) ==
    IF compress_returns_early(messages, k) THEN messages
    ELSE IF outcome.ok THEN compressed_messages(messages, k, outcome.content)
    ELSE recent_messages(messages, k)

compress_messages(messages, k, outcome) ==
    IF compress_returns_early(messages, k) THEN messages
    ELSE IF outcome.ok THEN compressed_messages(messages, k, outcome.content)
    ELSE messages

\* current_tokens >= MAX_CONTEXT_TOKENS * COMPRESSION_THRESHOLD
over_threshold(messages, max_tokens) ==
    count_context_tokens(messages) * COMPRESSION_THRESHOLD_DEN
        >= max_tokens * COMPRESSION_THRESHOLD_NUM

manage_context(messages, max_tokens, k, outcome) ==
    IF over_threshold(messages, max_tokens)
    THEN compress_messages(messages, k, outcome)
    ELSE messages

(***************************************************************************)
(* Transcript codec.                                                       *)
(***************************************************************************)
format_message(i, msg) ==
    <<"[">> \o str_int(i) \o <<"]", " ">> \o upper(msg.role)
      \o <<":", " ">> \o msg.content

format_messages_for_display(messages) ==
    join(BlankLine, [i \in 1..Len(messages) |-> format_message(i - 1, messages[i])])

\* variant: the role is not lower-cased
parse_block_keeps_case(block) ==
    IF strip(block) = <<>> THEN <<>>
    ELSE IF ~contains(block, <<":">>) THEN <<>>
    ELSE LET parts == split1(block, <<":">>)
             hdr == strip(parts[1])
             content == strip(parts[2])
             role == IF contains(hdr, <<"]">>)
                     THEN strip(split1(hdr, <<"]">>)[2])
                     ELSE strip(hdr)
         IN  <<Msg(role, content)>>

\* the messages one block contributes: none, or one
parse_block(block) ==
    IF strip(block) = <<>> THEN <<>>
    ELSE IF ~contains(block, <<":">>) THEN <<>>
    ELSE LET parts == split1(block, <<":">>)
             hdr == strip(parts[1])
             content == strip(parts[2])
             role == IF contains(hdr, <<"]">>)
                     THEN lower(strip(split1(hdr, <<"]">>)[2]))
                     ELSE lower(strip(hdr))
         IN  <<Msg(role, content)>>

RECURSIVE parse_blocks(_)
parse_blocks(blocks) ==
    IF blocks = <<>> THEN <<>>
    ELSE parse_block(Head(blocks)) \o parse_blocks(Tail(blocks))

parse_messages_from_text(text) ==
    parse_blocks(split(strip(text), BlankLine))

(***************************************************************************)
(* The editing round: what show_conversation_editor writes, and what it    *)
(* makes of the file once the editor has exited.                           *)
(***************************************************************************)
full_text(messages) == header \o format_messages_for_display(messages)

\* variant: the '#' test is made on the line as it stands
is_content_line_unstripped(line) ==
    strip(line) # <<>> /\ ~startswith(line, <<"#">>)

\* variant: only empty lines are dropped
is_content_line_keeps_comments(line) == strip(line) # <<>>

\* stripped and not stripped.startswith('#')
is_content_line(line) ==
    LET stripped == strip(line)
    IN  stripped # <<>> /\ ~startswith(stripped, <<"#">>)

\* "Remove header comments and empty lines"
edited_content(edited_text) ==
    join(NL, SelectSeq(split(edited_text, NL), is_content_line))

\* the value returned once the file has been read back
\* lines 200-216: the parse of what is left of the file
parse_edited(edited_text) ==
    parse_messages_from_text(edited_content(edited_text))

\* the value returned once the file has been read back
editor_result(messages, edited_text) ==
    LET content == edited_content(edited_text)
        parsed == parse_edited(edited_text)
    IN  IF strip(content) = <<>> THEN messages
        ELSE IF parsed = <<>> THEN messages
        ELSE parsed

\* main: if updated_messages: messages = updated_messages
adopt(messages, updated_messages) ==
    IF updated_messages # <<>> THEN updated_messages ELSE messages

(***************************************************************************)
(* State.                                                                  *)
(*   pc         where the program is blocked (or which function is called) *)
(*   messages   the transcript (main's "messages"), or the argument of the *)
(*              function under study                                       *)
(*   max_tokens, keep   the configuration (lines 8 and 9)                  *)
(*   text       the text last produced by format or read back from the     *)
(*              editor                                                     *)
(*   result     the list last returned by the function under study         *)
(*   scratch    the scratch file of the current editing round              *)
(*   prev       the transcript handed to show_conversation_editor          *)
(*   lastEv     what the last step was                                     *)
(*   turns      number of queries entered                                  *)
(*   leaked     scratch files left behind on disk                          *)
(***************************************************************************)
VARIABLES pc, messages, max_tokens, keep, text, result, scratch, prev,
          lastEv, turns, leaked

vars == <<pc, messages, max_tokens, keep, text, result, scratch, prev,
          lastEv, turns, leaked>>

NoFile == [exists |-> FALSE, data |-> <<>>]

File(data) == [exists |-> TRUE, data |-> data]

\* variant: no finally clause
finally_unlink_skipped(file) == file

\* finally: os.unlink(temp_file)
finally_unlink(file) == NoFile

\* variant: the handler does not call exit()
main_on_KeyboardInterrupt_swallowed == "ask_user"

\* except KeyboardInterrupt: print('Ending.'); exit()
main_on_KeyboardInterrupt == "exited"

\* variant: the handler ends the program
main_on_Exception_exits == "exited"

\* except Exception as err: print(err), and the while loop goes round
main_on_Exception == "ask_user"

\* show_conversation_editor, except KeyboardInterrupt: return messages
editor_on_KeyboardInterrupt(msgs) == msgs

\* show_conversation_editor, except Exception: return messages
editor_on_Exception(msgs) == msgs

(***************************************************************************)
(* Inputs of the session: what the user types, what the model answers,     *)
(* what the editor leaves in the scratch file.                             *)
(***************************************************************************)
UserInputs == {<<"h","i">>, <<>>}

Replies == {<<"o","k">>}

Summaries == {<<"S">>}

EditedTexts ==
    { <<>>,
      header,
      <<"h","e","l","l","o">>,
      <<"#"," ","c",":"," ","d">>,
      <<"U","S","E","R",":"," ","a">>,
      <<"[","0","]"," ","U","S","E","R",":"," ","a","\n","\n",
        "[","1","]"," ","A","S","S","I","S","T","A","N","T",":"," ","b">> }

Configs ==
    { [max_tokens |-> MAX_CONTEXT_TOKENS, keep |-> RECENT_TURNS_TO_KEEP],
      [max_tokens |-> SmallMaxTokens, keep |-> SmallKeep] }

(***************************************************************************)
(* The session: main's loop, one action per way a blocking call ends.      *)
(***************************************************************************)
Init ==
    /\ pc = "ask_user"
    /\ messages = <<instruction_message>>
    /\ \E c \in Configs : max_tokens = c.max_tokens /\ keep = c.keep
    /\ text = <<>>
    /\ result = <<>>
    /\ scratch = NoFile
    /\ prev = <<>>
    /\ lastEv = "start"
    /\ turns = 0
    /\ leaked = 0

\* input() returns q; the query is appended and manage_context runs up to
\* the point where it either returns or calls the model for a summary
UserInput(q) ==
    /\ pc = "ask_user"
    /\ turns < MaxTurns
    /\ LET ms == Append(messages, Msg(role_user, q))
       IN  /\ messages' = ms
           /\ pc' = IF over_threshold(ms, max_tokens)
                       /\ ~compress_returns_early(ms, keep)
                    THEN "summarize" ELSE "ask_bot"
    /\ turns' = turns + 1
    /\ lastEv' = "input"
    /\ UNCHANGED <<max_tokens, keep, text, result, scratch, prev, leaked>>

\* input() raises (EOFError, ...)
InputError ==
    /\ pc = "ask_user"
    /\ pc' = main_on_Exception
    /\ lastEv' = "error_input"
    /\ UNCHANGED <<messages, max_tokens, keep, text, result, scratch, prev,
                   turns, leaked>>

InputInterrupt ==
    /\ pc = "ask_user"
    /\ pc' = main_on_KeyboardInterrupt
    /\ lastEv' = "interrupt_input"
    /\ UNCHANGED <<messages, max_tokens, keep, text, result, scratch, prev,
                   turns, leaked>>

\* the summarization call returns s
SummarizeReturn(s) ==
    /\ pc = "summarize"
    /\ messages' = manage_context(messages, max_tokens, keep, ChatOk(s))
    /\ pc' = "ask_bot"
    /\ lastEv' = "summary"
    /\ UNCHANGED <<max_tokens, keep, text, result, scratch, prev, turns, leaked>>

\* the summarization call raises; compress_messages catches it
SummarizeError ==
    /\ pc = "summarize"
    /\ messages' = manage_context(messages, max_tokens, keep, ChatError)
    /\ pc' = "ask_bot"
    /\ lastEv' = "error_summarize"
    /\ UNCHANGED <<max_tokens, keep, text, result, scratch, prev, turns, leaked>>

\* KeyboardInterrupt is not an Exception: it passes through compress_messages
SummarizeInterrupt ==
    /\ pc = "summarize"
    /\ pc' = main_on_KeyboardInterrupt
    /\ lastEv' = "interrupt_summarize"
    /\ UNCHANGED <<messages, max_tokens, keep, text, result, scratch, prev,
                   turns, leaked>>

\* the model answers a; the answer is appended, the scratch file is written
\* and the editor is started
BotAnswers(a) ==
    /\ pc = "ask_bot"
    /\ LET ms == Append(messages, Msg(role_assistant, a))
       IN  /\ messages' = ms
           /\ prev' = ms
           /\ scratch' = File(full_text(ms))
    /\ pc' = "editor"
    /\ lastEv' = "answer"
    /\ UNCHANGED <<max_tokens, keep, text, result, turns, leaked>>

\* as BotAnswers, but get_default_editor or subprocess.run raises
BotAnswersEditorFails(a) ==
    /\ pc = "ask_bot"
    /\ LET ms == Append(messages, Msg(role_assistant, a))
           updated == editor_on_Exception(ms)
       IN  /\ prev' = ms
           /\ result' = updated
           /\ messages' = adopt(ms, updated)
           /\ scratch' = finally_unlink(File(full_text(ms)))
    /\ pc' = "ask_user"
    /\ lastEv' = "error_editor_launch"
    /\ UNCHANGED <<max_tokens, keep, text, turns, leaked>>

\* as BotAnswers, but writing the scratch file raises: this happens before
\* the try statement, so the file stays and main's handler takes over
BotAnswersWriteFails(a) ==
    /\ pc = "ask_bot"
    /\ messages' = Append(messages, Msg(role_assistant, a))
    /\ leaked' = leaked + 1
    /\ pc' = main_on_Exception
    /\ lastEv' = "error_scratch_write"
    /\ UNCHANGED <<max_tokens, keep, text, result, scratch, prev, turns>>

\* the chat call of ask_bot raises
BotError ==
    /\ pc = "ask_bot"
    /\ pc' = main_on_Exception
    /\ lastEv' = "error_ask_bot"
    /\ UNCHANGED <<messages, max_tokens, keep, text, result, scratch, prev,
                   turns, leaked>>

BotInterrupt ==
    /\ pc = "ask_bot"
    /\ pc' = main_on_KeyboardInterrupt
    /\ lastEv' = "interrupt_ask_bot"
    /\ UNCHANGED <<messages, max_tokens, keep, text, result, scratch, prev,
                   turns, leaked>>

\* the editor exits and the file holds e; it is read back, parsed, removed
EditorReturn(e, ev) ==
    /\ pc = "editor"
    /\ text' = e
    /\ LET updated == editor_result(messages, e)
       IN  /\ result' = updated
           /\ messages' = adopt(messages, updated)
    /\ scratch' = finally_unlink(scratch)
    /\ pc' = "ask_user"
    /\ lastEv' = ev
    /\ UNCHANGED <<max_tokens, keep, prev, turns, leaked>>

\* the editor exits without having changed the file
EditorExitsUnchanged ==
    /\ scratch.exists
    /\ EditorReturn(scratch.data, "editor_unchanged")

\* the editor exits having saved e
EditorExitsEdited(e) ==
    /\ e # scratch.data
    /\ EditorReturn(e, "editor_edited")

\* the editor exits and the file is gone: open() raises, os.unlink raises
\* too and is ignored
EditorRemovesFile ==
    /\ pc = "editor"
    /\ LET updated == editor_on_Exception(messages)
       IN  /\ result' = updated
           /\ messages' = adopt(messages, updated)
    /\ scratch' = NoFile
    /\ pc' = "ask_user"
    /\ lastEv' = "error_read"
    /\ UNCHANGED <<max_tokens, keep, text, prev, turns, leaked>>

\* KeyboardInterrupt while subprocess.run waits for the editor
EditorInterrupt ==
    /\ pc = "editor"
    /\ LET updated == editor_on_KeyboardInterrupt(messages)
       IN  /\ result' = updated
           /\ messages' = adopt(messages, updated)
    /\ scratch' = finally_unlink(scratch)
    /\ pc' = "ask_user"
    /\ lastEv' = "interrupt_editor"
    /\ UNCHANGED <<max_tokens, keep, text, prev, turns, leaked>>

Next ==
    \/ \E q \in UserInputs : UserInput(q)
    \/ InputError
    \/ InputInterrupt
    \/ \E s \in Summaries : SummarizeReturn(s)
    \/ SummarizeError
    \/ SummarizeInterrupt
    \/ \E a \in Replies : BotAnswers(a)
    \/ \E a \in Replies : BotAnswersEditorFails(a)
    \/ \E a \in Replies : BotAnswersWriteFails(a)
    \/ BotError
    \/ BotInterrupt
    \/ EditorExitsUnchanged
    \/ \E e \in EditedTexts : EditorExitsEdited(e)
    \/ EditorRemovesFile
    \/ EditorInterrupt

Spec == Init /\ [][Next]_vars

(***************************************************************************)
(* compress_messages on its own: every list of up to MaxList messages and  *)
(* every keep_recent up to MaxKeep, and the 41-message scenario with the   *)
(* configured keep_recent.                                                 *)
(***************************************************************************)
CompressMsgs ==
    { Msg(role_system, <<"s">>), Msg(role_user, <<"q">>),
      Msg(role_assistant, <<"r">>) }

\* the lists of n messages
CompressInputs(n) == [1..n -> CompressMsgs]

\* one system message and 20 user/assistant pairs
ScenarioTranscript ==
    [i \in 1..41 |->
        IF i = 1 THEN Msg(role_system, <<"s">>)
        ELSE IF i % 2 = 0 THEN Msg(role_user, <<"q">> \o str_int(i \div 2))
        ELSE Msg(role_assistant, <<"r">> \o str_int(i \div 2))]

Idle ==
    /\ max_tokens = MAX_CONTEXT_TOKENS
    /\ text = <<>>
    /\ result = <<>>
    /\ scratch = NoFile
    /\ prev = <<>>
    /\ lastEv = "start"
    /\ turns = 0
    /\ leaked = 0

InitCompress ==
    /\ pc = "compress"
    /\ \/ /\ \E n \in 0..MaxList : messages \in CompressInputs(n)
          /\ keep \in 0..MaxKeep
       \/ messages = ScenarioTranscript /\ keep = RECENT_TURNS_TO_KEEP
    /\ Idle

CompressReturn(outcome, ev) ==
    /\ pc = "compress"
    /\ result' = compress_messages(messages, keep, outcome)
    /\ pc' = "returned"
    /\ lastEv' = ev
    /\ UNCHANGED <<messages, max_tokens, keep, text, scratch, prev, turns, leaked>>

\* one of the early returns: the model is not called
CompressNoCall ==
    /\ compress_returns_early(messages, keep)
    /\ CompressReturn(ChatError, "no_call")

CompressSummarized(s) ==
    /\ ~compress_returns_early(messages, keep)
    /\ CompressReturn(ChatOk(s), "summary")

CompressFailed ==
    /\ ~compress_returns_early(messages, keep)
    /\ CompressReturn(ChatError, "error_summarize")

NextCompress ==
    \/ CompressNoCall
    \/ \E s \in Summaries : CompressSummarized(s)
    \/ CompressFailed

SpecCompress == InitCompress /\ [][NextCompress]_vars

(***************************************************************************)
(* The codec on its own: every transcript of up to MaxMsgs messages whose  *)
(* contents have up to MaxChars characters in all.                         *)
(***************************************************************************)
ContentChars == {"a", "\n", ":"}

\* a role as the program writes it, and one that is not lower-case
CodecRoles == {role_user, <<"U","s","e","r">>}

RECURSIVE TranscriptsOf(_, _)
TranscriptsOf(n, budget) ==
    IF n = 0 THEN {<<>>}
    ELSE UNION { { <<Msg(r, c)>> \o rest :
                     r \in CodecRoles, c \in [1..l -> ContentChars],
                     rest \in TranscriptsOf(n - 1, budget - l) } :
                 l \in 0..budget }

InitCodec ==
    /\ pc = "codec"
    /\ \E n \in 0..MaxMsgs : messages \in TranscriptsOf(n, MaxChars)
    /\ keep = RECENT_TURNS_TO_KEEP
    /\ Idle

Format ==
    /\ pc = "codec"
    /\ text' = format_messages_for_display(messages)
    /\ pc' = "formatted"
    /\ lastEv' = "format"
    /\ UNCHANGED <<messages, max_tokens, keep, result, scratch, prev, turns, leaked>>

Parse ==
    /\ pc = "formatted"
    /\ result' = parse_messages_from_text(text)
    /\ pc' = "parsed"
    /\ lastEv' = "parse"
    /\ UNCHANGED <<messages, max_tokens, keep, text, scratch, prev, turns, leaked>>

NextCodec ==
    \/ Format
    \/ Parse

SpecCodec == InitCodec /\ [][NextCodec]_vars

(***************************************************************************)
(* Reading an edited file back: every text of up to MaxTextLen characters. *)
(***************************************************************************)
TextChars == {"a", "#", "\n", ":", " "}

\* the files of n characters
EditedFiles(n) == [1..n -> TextChars]

InitRead ==
    /\ pc = "edited"
    /\ messages = <<instruction_message>>
    /\ keep = RECENT_TURNS_TO_KEEP
    /\ max_tokens = MAX_CONTEXT_TOKENS
    /\ \E n \in 0..MaxTextLen : text \in EditedFiles(n)
    /\ result = <<>>
    /\ scratch = NoFile
    /\ prev = <<>>
    /\ lastEv = "start"
    /\ turns = 0
    /\ leaked = 0

\* lines 200-216 applied to the file
ReadBack ==
    /\ pc = "edited"
    /\ result' = parse_edited(text)
    /\ pc' = "read"
    /\ lastEv' = "read_back"
    /\ UNCHANGED <<messages, max_tokens, keep, text, scratch, prev, turns, leaked>>

NextRead == ReadBack

SpecRead == InitRead /\ [][NextRead]_vars

(***************************************************************************)
(* Properties.                                                             *)
(***************************************************************************)
\* a blank line immediately followed by a line that holds a colon, the
\* widest reading of "a line of the form '[index] ROLE:' or 'ROLE:'"
BlankThenHeader(c) ==
    \E i \in 1..(Len(c) - 1) :
        /\ c[i] = "\n"
        /\ c[i + 1] = "\n"
        /\ contains(Head(split(SubSeq(c, i + 2, Len(c)), NL)), <<":">>)

NoHeaderAfterBlank(m) == \A i \in 1..Len(m) : ~BlankThenHeader(m[i].content)

\* roles are lower-case, free of colons, blank lines and surrounding
\* whitespace; contents are free of blank lines and surrounding whitespace
RoundTripSafe(m) ==
    \A i \in 1..Len(m) :
        /\ lower(m[i].role) = m[i].role
        /\ strip(m[i].role) = m[i].role
        /\ ~contains(m[i].role, <<":">>)
        /\ ~contains(m[i].role, BlankLine)
        /\ strip(m[i].content) = m[i].content
        /\ ~contains(m[i].content, BlankLine)

\* C1 as stated: whenever no content holds a blank line followed by a
\* header-shaped line, parsing the rendered transcript gives the transcript
C1_RoundTripAsStated ==
    (pc = "parsed" /\ NoHeaderAfterBlank(messages)) => result = messages

\* C1 amended: parsing the rendered transcript gives the transcript back
\* whenever every role is lower-case without colon, blank line or
\* surrounding whitespace and every content is without blank line or
\* surrounding whitespace
C1_RoundTrip ==
    (pc = "parsed" /\ RoundTripSafe(messages)) => result = messages

C1_Witness ==
    /\ pc = "parsed"
    /\ RoundTripSafe(messages)
    /\ Len(messages) = 2
    /\ \E i \in 1..2 : contains(messages[i].content, NL)
    /\ result = messages

\* C2: when the editor leaves the scratch file as it was written, the
\* transcript after the round equals the transcript before the round
C2_UnchangedFileKeepsTranscript ==
    (lastEv = "editor_unchanged" /\ RoundTripSafe(prev)) => messages = prev

\* C3: when the summarization call raises an error, compress_messages
\* returns exactly its input list
C3_FailureReturnsInput ==
    (pc = "returned" /\ lastEv = "error_summarize") => result = messages

C3_Witness ==
    /\ pc = "returned"
    /\ lastEv = "error_summarize"
    /\ Len(messages) > 2 * keep + 1
    /\ Head(messages).role = role_system
    /\ result = messages

SystemCount(m) == IF m # <<>> /\ m[1].role = role_system THEN 1 ELSE 0

\* C4: with more than 2*keep+1 messages the model is called, and when it
\* answers the result is the leading system message if there is one, then
\* one assistant message starting with the summary marker, then the last
\* 2*keep messages of the input in their order, and nothing else
C4_CompressedShape ==
    /\ (pc = "compress" /\ Len(messages) > 2 * keep + 1)
          => ~compress_returns_early(messages, keep)
    /\ (pc = "returned" /\ lastEv = "summary") =>
          LET s == SystemCount(messages)
              n == Len(messages)
          IN  /\ n > 2 * keep + 1
              /\ Len(result) = s + 1 + 2 * keep
              /\ s = 1 => result[1] = messages[1]
              /\ result[s + 1].role = role_assistant
              /\ startswith(result[s + 1].content, SubSeq(summary_marker, 1, 32))
              /\ \A j \in 1..(2 * keep) :
                    result[s + 1 + j] = messages[n - 2 * keep + j]

C4_Witness ==
    /\ pc = "returned"
    /\ lastEv = "summary"
    /\ Len(messages) = 41
    /\ keep = 6
    /\ Len(result) = 14
    /\ SubSeq(result, 3, 14) = SubSeq(messages, 30, 41)

\* C5 as stated: whatever the outcome of the summarization call, the
\* returned list has at most s + 1 + 2*keep messages
C5_LengthBoundAsStated ==
    pc = "returned" => Len(result) <= SystemCount(messages) + 1 + 2 * keep

\* C5 amended: when the summarization call does not fail (it answers, or
\* it is not made), the returned list has at most s + 1 + 2*keep messages
C5_LengthBound ==
    (pc = "returned" /\ lastEv # "error_summarize")
        => Len(result) <= SystemCount(messages) + 1 + 2 * keep

C5_Witness ==
    /\ pc = "returned"
    /\ lastEv = "summary"
    /\ Len(messages) > SystemCount(messages) + 1 + 2 * keep
    /\ Len(result) = SystemCount(messages) + 1 + 2 * keep

\* every line is blank or starts, after whitespace, with '#'
NoContent(t) ==
    \A i \in 1..Len(split(t, NL)) :
        LET line == strip(split(t, NL)[i])
        IN  line = <<>> \/ Head(line) = "#"

EditorReturned == lastEv \in {"editor_unchanged", "editor_edited"}

\* C6: after an editing round whose file holds nothing but comments and
\* blank lines, or parses to zero messages, the transcript is the one
\* before the round; and the transcript is never empty
C6_EmptyEditKeepsTranscript ==
    /\ (EditorReturned /\ (NoContent(text) \/ parse_edited(text) = <<>>))
          => messages = prev
    /\ messages # <<>>

C6_Witness ==
    /\ lastEv = "editor_edited"
    /\ NoContent(text)
    /\ contains(text, <<":">>)
    /\ Len(prev) >= 3
    /\ messages = prev

\* the first non-whitespace character of the line is '#'
IsCommentLine(line) ==
    \E i \in 1..Len(line) :
        /\ line[i] = "#"
        /\ \A j \in 1..(i - 1) : line[j] \in Whitespace

RemoveLine(t, i) ==
    LET lines == split(t, NL)
    IN  join(NL, SubSeq(lines, 1, i - 1) \o SubSeq(lines, i + 1, Len(lines)))

\* C7: the file parses to the same messages as the file without any one
\* of its comment lines, wherever that line stands
C7_CommentLinesIgnored ==
    pc = "read" =>
        \A i \in 1..Len(split(text, NL)) :
            IsCommentLine(split(text, NL)[i])
                => parse_edited(RemoveLine(text, i)) = result

C7_Witness ==
    /\ pc = "read"
    /\ \E i \in 2..Len(split(text, NL)) :
          /\ IsCommentLine(split(text, NL)[i])
          /\ contains(split(text, NL)[i], <<":">>)
    /\ result # <<>>
    /\ parse_edited(RemoveLine(text, 2)) = result

EditorExitEvents ==
    {"editor_unchanged", "editor_edited", "error_editor_launch",
     "error_read", "interrupt_editor"}

\* C8: while the editor runs the scratch file exists and holds the header
\* and the rendered transcript; after every return of
\* show_conversation_editor the scratch file does not exist
C8_ScratchFileScoped ==
    /\ pc = "editor" => (scratch.exists /\ scratch.data = full_text(prev))
    /\ lastEv \in EditorExitEvents => ~scratch.exists

C8_Witness ==
    /\ lastEv = "interrupt_editor"
    /\ ~scratch.exists
    /\ turns >= 1

InterruptEvents ==
    {"interrupt_input", "interrupt_summarize", "interrupt_ask_bot",
     "interrupt_editor"}

\* C9 as stated: an interrupt during any wait ends the session
C9_InterruptEndsSessionAsStated ==
    lastEv \in InterruptEvents => pc = "exited"

\* C9 amended: an interrupt during the input prompt or a model call (the
\* summarization call included) ends the session and nothing happens
\* after it; an interrupt during the editor wait only cancels the editing
\* round: the scratch file is removed, the transcript is kept and the
\* loop goes on to the next prompt
C9_InterruptEndsSession ==
    /\ [](lastEv \in (InterruptEvents \ {"interrupt_editor"}) => pc = "exited")
    /\ [](lastEv = "interrupt_editor"
            => (pc = "ask_user" /\ messages = prev /\ ~scratch.exists))
    /\ [][pc # "exited"]_vars

C9_Witness ==
    /\ lastEv = "interrupt_summarize"
    /\ pc = "exited"

ErrorEvents ==
    {"error_input", "error_summarize", "error_ask_bot",
     "error_editor_launch", "error_scratch_write", "error_read"}

\* C10: after an error the session is not ended: it is at the next prompt,
\* or, after a failed summarization, at the model call of the same turn;
\* and the session is ended only by an interrupt
C10_ErrorsNeverEndSession ==
    /\ lastEv \in ErrorEvents =>
          pc = (IF lastEv = "error_summarize" THEN "ask_bot" ELSE "ask_user")
    /\ (EditorReturned /\ parse_edited(text) = <<>>) => pc = "ask_user"
    /\ pc = "exited" => lastEv \in InterruptEvents

C10_Witness ==
    /\ lastEv = "error_ask_bot"
    /\ pc = "ask_user"
    /\ turns >= 1

====
